---- MODULE Spec2Model ----
(***************************************************************************)
(* salon-randevu: a Flask + SQLAlchemy/SQLite appointment book (app.py).   *)
(*                                                                         *)
(* Text (form fields, query parameters, time labels) is a sequence of      *)
(* one-character strings, so that int(), str.strip(), strptime() and       *)
(* strftime() are computed, not assumed.  A date is its proleptic          *)
(* Gregorian ordinal (date.toordinal()); a datetime is the wall-clock      *)
(* minute ordinal * 1440 + minute-of-day (SQLite stores DateTime columns   *)
(* without the zone offset, and TZ is constant for all values used).       *)
(***************************************************************************)
EXTENDS Integers, Sequences, FiniteSets, TLC

(* ------------------------------ bounds -------------------------------- *)
\* number of request-handling workers that may run concurrently
NumWorkers == 2
\* largest appointment row id the store hands out
MaxId == 3
\* number of consecutive calendar days the clock may show
NumDays == 8

(* --------------------------- configuration ---------------------------- *)
EMPLOYEE_NAMES == <<"Merve", "Zeynep", "Irem", "X">>
SLOT_MINUTES == 60
START_TIME == 9 * 60
END_TIME == 19 * 60 + 30
SPECIAL_TIME == 18 * 60 + 30
TR_DAYS == <<"Pazartesi", "Sali", "Carsamba", "Persembe", "Cuma", "Cumartesi", "Pazar">>

(* ------------------------------- text --------------------------------- *)
Digits == <<"0", "1", "2", "3", "4", "5", "6", "7", "8", "9">>
IsDigit(c) == \E i \in 1..10 : Digits[i] = c
DigitVal(c) == (CHOOSE i \in 1..10 : Digits[i] = c) - 1
AllDigits(s) == \A i \in 1..Len(s) : IsDigit(s[i])

RECURSIVE DecVal(_)
DecVal(s) == IF s = <<>> THEN 0
             ELSE 10 * DecVal(SubSeq(s, 1, Len(s) - 1)) + DigitVal(s[Len(s)])

RECURSIVE lstrip(_)
lstrip(s) == IF s # <<>> /\ Head(s) = " " THEN lstrip(Tail(s)) ELSE s
RECURSIVE rstrip(_)
rstrip(s) == IF s # <<>> /\ s[Len(s)] = " " THEN rstrip(SubSeq(s, 1, Len(s) - 1)) ELSE s
\* str.strip()
strip(s) == rstrip(lstrip(s))

\* a parse result: ok = FALSE stands for the exception the parser raises
Parsed(v) == [ok |-> TRUE, val |-> v]
Raises == [ok |-> FALSE, val |-> 0]

\* int(text): surrounding blanks are ignored, the rest must be decimal digits
int(s) == LET t == strip(s)
          IN IF t # <<>> /\ AllDigits(t) THEN Parsed(DecVal(t)) ELSE Raises

TwoDigits(n) == <<Digits[(n \div 10) + 1], Digits[(n % 10) + 1]>>

(* ------------------------------ calendar ------------------------------ *)
IsLeap(y) == y % 4 = 0 /\ (y % 100 # 0 \/ y % 400 = 0)
DaysInMonth(y, m) == IF m = 2 THEN (IF IsLeap(y) THEN 29 ELSE 28)
                     ELSE IF m \in {4, 6, 9, 11} THEN 30 ELSE 31
DaysBeforeYear(y) == LET z == y - 1
                     IN z * 365 + (z \div 4) - (z \div 100) + (z \div 400)
RECURSIVE DaysBeforeMonth(_, _)
DaysBeforeMonth(y, m) == IF m = 1 THEN 0
                         ELSE DaysBeforeMonth(y, m - 1) + DaysInMonth(y, m - 1)
\* date(y, m, d).toordinal()
ymd2ord(y, m, d) == DaysBeforeYear(y) + DaysBeforeMonth(y, m) + d
\* date.weekday(): Monday is 0, Sunday is 6 (ordinal 1 is a Monday)
weekday(d) == (d + 6) % 7

\* datetime.strptime(s, "%Y-%m-%d").date(): four-digit year, one- or
\* two-digit month and day, and the day must exist in the month
parse_date(s) ==
    IF \E k \in {1, 2} :
          /\ Len(s) \in {7 + k, 8 + k}
          /\ AllDigits(SubSeq(s, 1, 4)) /\ s[5] = "-"
          /\ AllDigits(SubSeq(s, 6, 5 + k)) /\ s[6 + k] = "-"
          /\ AllDigits(SubSeq(s, 7 + k, Len(s)))
          /\ LET y == DecVal(SubSeq(s, 1, 4))
                 m == DecVal(SubSeq(s, 6, 5 + k))
                 d == DecVal(SubSeq(s, 7 + k, Len(s)))
             IN y >= 1 /\ m \in 1..12 /\ d >= 1 /\ d <= DaysInMonth(y, m)
    THEN LET k == CHOOSE k \in {1, 2} : Len(s) > 5 + k /\ s[6 + k] = "-"
         IN Parsed(ymd2ord(DecVal(SubSeq(s, 1, 4)),
                           DecVal(SubSeq(s, 6, 5 + k)),
                           DecVal(SubSeq(s, 7 + k, Len(s)))))
    ELSE Raises

\* datetime.strptime(s, "%H:%M").time(): one- or two-digit hour 0..23 and
\* minute 0..59 around a single colon; the value is the minute of the day
parse_time(s) ==
    IF \E k \in {1, 2} :
          /\ Len(s) \in {2 + k, 3 + k}
          /\ AllDigits(SubSeq(s, 1, k)) /\ s[k + 1] = ":"
          /\ AllDigits(SubSeq(s, k + 2, Len(s)))
          /\ DecVal(SubSeq(s, 1, k)) <= 23
          /\ DecVal(SubSeq(s, k + 2, Len(s))) <= 59
    THEN LET k == CHOOSE k \in {1, 2} : Len(s) > k /\ s[k + 1] = ":"
         IN Parsed(60 * DecVal(SubSeq(s, 1, k)) + DecVal(SubSeq(s, k + 2, Len(s))))
    ELSE Raises

\* datetime.combine(day, t), TZ.localize() leaving the wall clock as is
combine(day, t) == day * 1440 + t
DateOf(dt) == dt \div 1440
TimeOf(dt) == dt % 1440
\* dt.strftime("%H:%M")
strftime_HM(dt) == TwoDigits(TimeOf(dt) \div 60) \o <<":">> \o TwoDigits(TimeOf(dt) % 60)

\* week_start_for(d): the Monday on or before d
week_start_for(d) == d - weekday(d)
\* week_days(start)
week_days(start) == [i \in 1..7 |-> start + (i - 1)]

(* --------------------------- slot calculator -------------------------- *)
Slot(dt) == [dt |-> dt, label |-> strftime_HM(dt)]

RECURSIVE slot_loop(_, _, _)
slot_loop(cur, end_dt, slots) ==
    IF cur + SLOT_MINUTES <= end_dt
    THEN slot_loop(cur + SLOT_MINUTES, end_dt, Append(slots, Slot(cur)))
    ELSE slots

\* the regular stepping alone, without the late slot
iter_slots_without_special(day) ==
    IF weekday(day) = 6 THEN <<>>
    ELSE slot_loop(combine(day, START_TIME), combine(day, END_TIME), <<>>)

iter_slots_for_day(day) ==
    LET end_dt == combine(day, END_TIME)
        slots == slot_loop(combine(day, START_TIME), end_dt, <<>>)
        special_dt == combine(day, SPECIAL_TIME)
        more == IF /\ \A i \in 1..Len(slots) : TimeOf(slots[i].dt) # SPECIAL_TIME
                   /\ special_dt + 60 <= end_dt
                   /\ weekday(day) # 6
                THEN Append(slots, Slot(special_dt))
                ELSE slots
    IN IF weekday(day) = 6 THEN <<>> ELSE more

Labels(slots) == {slots[i].label : i \in 1..Len(slots)}

\* the clock's first day, Monday 2024-01-01, and the days requests can name
FirstDay == ymd2ord(2024, 1, 1)
CalendarDays == (FirstDay - 7)..(FirstDay + NumDays + 21)
\* iter_slots_for_day tabulated over the calendar, computed once
SlotTable == [d \in CalendarDays |-> iter_slots_for_day(d)]
slots_for(day) == IF day \in CalendarDays THEN SlotTable[day] ELSE iter_slots_for_day(day)

(* ------------------------------ the store ----------------------------- *)
VARIABLES employees, appointments, pc, form, resp, reminder

vars == <<employees, appointments, pc, form, resp, reminder>>

Workers == 1..NumWorkers

\* Employee rows written by the startup seed, ids in insertion order
SeedEmployees == {[id |-> i, name |-> EMPLOYEE_NAMES[i]] : i \in 1..Len(EMPLOYEE_NAMES)}

\* a lookup that answers with a row whatever the id
get_first_employee(rows, emp_id) == rows
\* s.get(Employee, emp_id)
get_employee(rows, emp_id) == {e \in rows : e.id = emp_id}
\* a lookup that ignores the id
get_any_appointment(rows, appt_id) == rows
\* s.get(Appointment, appt_id)
get_appointment(rows, appt_id) == {a \in rows : a.id = appt_id}
\* s.query(Appointment).filter_by(employee_id=emp_id, start_time=dt)
filter_by(rows, emp_id, dt) == {a \in rows : a.employee_id = emp_id /\ a.start_time = dt}
\* the occupancy query left out
exists_not_queried(rows, emp_id, dt) == {}
\* the occupancy query of create_appointment, .first()
exists_query(rows, emp_id, dt) == filter_by(rows, emp_id, dt)
\* the point lookup of slot_modal for the parameters date, time, employee_id
slot_lookup(rows, emp_id, date_str, time_str) ==
    filter_by(rows, emp_id, combine(parse_date(date_str).val, parse_time(time_str).val))

\* the table without its unique constraint: every INSERT passes
uq_not_declared(rows, row) == TRUE
\* UniqueConstraint("employee_id", "start_time"): may `row` be inserted?
uq_employee_slot(rows, row) ==
    ~ \E a \in rows : a.employee_id = row.employee_id /\ a.start_time = row.start_time

\* INTEGER PRIMARY KEY of SQLite: one more than the largest id in the table
NewId(rows) == IF rows = {} THEN 1
               ELSE (CHOOSE m \in {a.id : a \in rows} : \A a \in rows : a.id <= m) + 1

\* a DELETE that lost its WHERE clause
delete_every_row(rows, appt_id) == {}
\* DELETE FROM appointments WHERE id = appt_id
delete_row(rows, appt_id) == {a \in rows : a.id # appt_id}

(* ------------------------------ responses ----------------------------- *)
MsgMissing == "Zorunlu alanlar eksik."
MsgSunday == "Pazar gunu randevu alinamaz."
MsgInvalidSlot == "Gecersiz saat dilimi."
MsgNoEmployee == "Calisan bulunamadi."
MsgTaken == "Bu slot zaten dolu."
MsgNoAppointment == "Randevu bulunamadi."
MsgCrash == "Internal Server Error"

NoCtx == [today |-> 0, ws |-> 0, days |-> <<>>, day_names |-> <<>>, day_slots |-> <<>>,
          day_counts |-> <<>>, employees |-> {}, appt_map |-> {},
          prev_w |-> 0, next_w |-> 0, this_w |-> 0]
Response(status, body) == [status |-> status, body |-> body, ctx |-> NoCtx]
\* an exception no handler catches: Flask answers 500
InternalServerError == Response(500, MsgCrash)
\* make_response("", 204)
NoContent == Response(204, "")
NoResponse == Response(0, "")
NoForm == [kind |-> "none"]

(* ---------------------------- request inputs --------------------------- *)
Blank == <<>>
Sat06 == <<"2", "0", "2", "4", "-", "0", "1", "-", "0", "6">>
Sun07 == <<"2", "0", "2", "4", "-", "0", "1", "-", "0", "7">>
Mon08 == <<"2", "0", "2", "4", "-", "1", "-", "8">>
Wed03 == <<"2", "0", "2", "4", "-", "0", "1", "-", "0", "3">>
Feb30 == <<"2", "0", "2", "4", "-", "0", "2", "-", "3", "0">>
T1800 == <<"1", "8", ":", "0", "0">>
T1830 == <<"1", "8", ":", "3", "0">>
T900 == <<"9", ":", "0", "0">>
T1830NoColon == <<"1", "8", "3", "0">>

CreateForm(e, d, t, c, ph, sv) ==
    [kind |-> "create", employee_id |-> e, date |-> d, time |-> t,
     customer_name |-> c, phone |-> ph, service |-> sv]
DeleteForm(id) == [kind |-> "delete", appt_id |-> id]
IndexForm(ws, emp) == [kind |-> "index", week_start |-> ws, emp |-> emp]

SlotForm(d, t, e) == [kind |-> "slot", date |-> d, time |-> t, employee_id |-> e]

\* forms of concurrent clients: every one passes the field checks
BookingForms ==
    {CreateForm(e, Sat06, T1800, <<" ", "A", " ">>, <<" ", "5">>, <<"K">>) :
        e \in {<<"1">>, <<"2">>, <<"9">>}}
    \cup {CreateForm(<<"1">>, Sat06, T1830, <<" ", "A", " ">>, <<" ", "5">>, <<"K">>)}

\* forms of a single client: every field takes well-formed and ill-formed values
AnyForms ==
    {CreateForm(e, d, t, c, ph, sv) :
        e \in {<<"1">>, <<"9">>, <<"x">>},
        d \in {Blank, Sat06, Sun07, Feb30},
        t \in {Blank, T1800, T1830, T900, T1830NoColon},
        c \in {<<" ">>, <<" ", "A", " ">>},
        ph \in {Blank, <<" ", "5">>},
        sv \in {Blank, <<"K">>}}

\* date, time and employee_id query parameters of GET /slot (Blank: left out)
SlotDates == {Blank, Sat06, Feb30}
SlotTimes == {Blank, T1800, T1830NoColon}
SlotEmployees == {Blank, <<"0">>, <<"1">>, <<"9">>}

\* week_start and emp query parameters of the week view ("" is an absent emp)
WeekStarts == {Blank, Wed03, Sun07, Mon08, Feb30}
EmpParams == {"", "Merve"}
\* the dates datetime.now(TZ).date() may return
Today == {FirstDay + i : i \in 0..(NumDays - 1)}

(* ------------------------- POST /appointments ------------------------- *)
\* the closed-day test left out
closed_day_skipped(day) == FALSE
\* the label test left out
slot_not_checked(time_str, day) == TRUE
\* day.weekday() == 6
closed_day(day) == weekday(day) = 6
\* time_str in [s.label for s in iter_slots_for_day(day)]
slot_ok(time_str, day) == time_str \in Labels(slots_for(day))

\* The part of create_appointment that runs before the session is opened.
\* go = TRUE: the handler continues with the store; otherwise `out` is returned.
create_validate(f) ==
    LET Stop(r) == [go |-> FALSE, out |-> r]
    IN IF ~int(f.employee_id).ok THEN Stop(InternalServerError)
       ELSE IF ~(/\ strip(f.customer_name) # <<>> /\ strip(f.service) # <<>>
                 /\ f.date # <<>> /\ f.time # <<>>)
            THEN Stop(Response(400, MsgMissing))
       ELSE IF ~parse_date(f.date).ok THEN Stop(InternalServerError)
       ELSE IF ~parse_time(f.time).ok THEN Stop(InternalServerError)
       ELSE IF closed_day(parse_date(f.date).val) THEN Stop(Response(400, MsgSunday))
       ELSE IF ~slot_ok(f.time, parse_date(f.date).val)
            THEN Stop(Response(400, MsgInvalidSlot))
       ELSE [go |-> TRUE, out |-> NoResponse]

\* the row built from the raw form fields, without str.strip()
new_appointment_unstripped(f) ==
    LET dt == combine(parse_date(f.date).val, parse_time(f.time).val)
    IN [id |-> 0,
        employee_id |-> int(f.employee_id).val,
        customer_name |-> f.customer_name,
        phone |-> f.phone,
        service |-> f.service,
        start_time |-> dt,
        end_time |-> dt + SLOT_MINUTES,
        reminder_sent |-> FALSE]

\* Appointment(...) as built by create_appointment from its locals; the id is
\* assigned at the INSERT and reminder_sent takes its default
new_appointment(f) ==
    LET dt == combine(parse_date(f.date).val, parse_time(f.time).val)
    IN [id |-> 0,
        employee_id |-> int(f.employee_id).val,
        customer_name |-> strip(f.customer_name),
        phone |-> strip(f.phone),
        service |-> strip(f.service),
        start_time |-> dt,
        end_time |-> dt + SLOT_MINUTES,
        reminder_sent |-> FALSE]

\* what the handler computes from a form alone, tabulated once per form
Validated == [f \in BookingForms \cup AnyForms |-> create_validate(f)]
Built == [f \in BookingForms \cup AnyForms |-> new_appointment(f)]

\* the request is received and checked; nothing of the store is read yet
CreateValidate(w, f) ==
    /\ pc[w] = "idle"
    /\ form' = [form EXCEPT ![w] = f]
    /\ IF Validated[f].go
       THEN /\ pc' = [pc EXCEPT ![w] = "create_read"]
            /\ resp' = [resp EXCEPT ![w] = NoResponse]
       ELSE /\ pc' = [pc EXCEPT ![w] = "done"]
            /\ resp' = [resp EXCEPT ![w] = Validated[f].out]
    /\ UNCHANGED <<employees, reminder, appointments>>

\* s.get(Employee, emp_id), then the occupancy query
CreateReadCheck(w) ==
    /\ pc[w] = "create_read"
    /\ LET appt == Built[form[w]]
       IN IF get_employee(employees, appt.employee_id) = {}
          THEN /\ pc' = [pc EXCEPT ![w] = "done"]
               /\ resp' = [resp EXCEPT ![w] = Response(404, MsgNoEmployee)]
          ELSE IF exists_query(appointments, appt.employee_id, appt.start_time) # {}
          THEN /\ pc' = [pc EXCEPT ![w] = "done"]
               /\ resp' = [resp EXCEPT ![w] = Response(400, MsgTaken)]
          ELSE /\ pc' = [pc EXCEPT ![w] = "create_commit"]
               /\ UNCHANGED resp
    /\ UNCHANGED <<employees, reminder, appointments, form>>

\* s.add(appt); s.commit(): the INSERT either passes the unique constraint or
\* raises IntegrityError, which nothing catches
CreateCommit(w) ==
    /\ pc[w] = "create_commit"
    /\ LET row == [Built[form[w]] EXCEPT !.id = NewId(appointments)]
       IN IF uq_employee_slot(appointments, row)
          THEN /\ row.id <= MaxId
               /\ appointments' = appointments \cup {row}
               /\ resp' = [resp EXCEPT ![w] = NoContent]
          ELSE /\ appointments' = appointments
               /\ resp' = [resp EXCEPT ![w] = InternalServerError]
    /\ pc' = [pc EXCEPT ![w] = "done"]
    /\ UNCHANGED <<employees, reminder, form>>

(* --------------------- POST /appointments/<id>/delete ----------------- *)
\* s.get(Appointment, appt_id) and the 404 answer
DeleteGet(w, id) ==
    /\ pc[w] = "idle"
    /\ form' = [form EXCEPT ![w] = DeleteForm(id)]
    /\ IF get_appointment(appointments, id) = {}
       THEN /\ pc' = [pc EXCEPT ![w] = "done"]
            /\ resp' = [resp EXCEPT ![w] = Response(404, MsgNoAppointment)]
       ELSE /\ pc' = [pc EXCEPT ![w] = "delete_commit"]
            /\ resp' = [resp EXCEPT ![w] = NoResponse]
    /\ UNCHANGED <<employees, reminder, appointments>>

\* s.delete(appt); s.commit(): a DELETE by primary key
DeleteCommit(w) ==
    /\ pc[w] = "delete_commit"
    /\ appointments' = delete_row(appointments, form[w].appt_id)
    /\ resp' = [resp EXCEPT ![w] = NoContent]
    /\ pc' = [pc EXCEPT ![w] = "done"]
    /\ UNCHANGED <<employees, reminder, form>>

(* ------------------------ GET / (the week view) ----------------------- *)
\* fetch_week_appointments(ses, days): start_time from 00:00 of the first day
\* to 23:59 of the last, both included
fetch_week_appointments(rows, days) ==
    {a \in rows : /\ a.start_time >= combine(days[1], 0)
                  /\ a.start_time <= combine(days[Len(days)], 23 * 60 + 59)}

\* build_calendar_context(ws_param, emp_param) read at the date `today`, with
\* the weekday names the template writes over the columns (TR_DAYS[loop.index0]).
\* Dates stay ordinals where the code formats them as text.
build_calendar_context(ws_param, emp_param, today, emps, rows) ==
    LET ws_date == IF ws_param # <<>> THEN parse_date(ws_param).val ELSE week_start_for(today)
        days == week_days(ws_date)
        active_emp == IF emp_param # "" THEN emp_param ELSE "Hepsi"
        shown == IF active_emp # "Hepsi" THEN {e \in emps : e.name = active_emp} ELSE emps
        visible_ids == {e.id : e \in shown}
        fetched == fetch_week_appointments(rows, days)
    IN [today |-> today,
        ws |-> ws_date,
        days |-> days,
        day_names |-> [i \in 1..7 |-> TR_DAYS[i]],
        day_slots |-> [d \in {days[i] : i \in 1..7} |-> slots_for(d)],
        day_counts |-> [i \in 1..7 |->
            Cardinality({a \in fetched : /\ a.employee_id \in visible_ids
                                         /\ DateOf(a.start_time) = days[i]})],
        employees |-> shown,
        appt_map |-> {a \in fetched : a.employee_id \in visible_ids},
        prev_w |-> ws_date - 7,
        next_w |-> ws_date + 7,
        this_w |-> week_start_for(today)]

\* index(): the whole handler reads the store in one session
Index(w, ws_param, emp_param, today) ==
    /\ pc[w] = "idle"
    /\ form' = [form EXCEPT ![w] = IndexForm(ws_param, emp_param)]
    /\ pc' = [pc EXCEPT ![w] = "done"]
    /\ IF ws_param # <<>> /\ ~parse_date(ws_param).ok
       THEN resp' = [resp EXCEPT ![w] = InternalServerError]
       ELSE resp' = [resp EXCEPT ![w] =
                [status |-> 200, body |-> "INDEX_HTML",
                 ctx |-> build_calendar_context(ws_param, emp_param, today,
                                                employees, appointments)]]
    /\ UNCHANGED <<employees, reminder, appointments>>

(* ------------------------------ GET /slot ---------------------------- *)
\* slot_modal(): int() runs on employee_id before the presence test, abort()
\* answers with the bare status, one_or_none() raises on more than one row
slot_modal(f, emps, rows) ==
    LET emp_id == int(f.employee_id)
    IN IF ~emp_id.ok THEN InternalServerError
       ELSE IF ~(f.date # <<>> /\ f.time # <<>> /\ emp_id.val # 0)
            THEN Response(400, "Bad Request")
       ELSE IF ~parse_date(f.date).ok THEN InternalServerError
       ELSE IF ~parse_time(f.time).ok THEN InternalServerError
       ELSE IF get_employee(emps, emp_id.val) = {} THEN Response(404, "Not Found")
       ELSE LET appt == slot_lookup(rows, emp_id.val, f.date, f.time)
            IN IF Cardinality(appt) > 1 THEN InternalServerError
               ELSE [status |-> 200, body |-> "SLOT_HTML",
                     ctx |-> [emp |-> get_employee(emps, emp_id.val),
                              dt |-> combine(parse_date(f.date).val, parse_time(f.time).val),
                              appt |-> appt]]

SlotModal(w, d, t, e) ==
    /\ pc[w] = "idle"
    /\ form' = [form EXCEPT ![w] = SlotForm(d, t, e)]
    /\ pc' = [pc EXCEPT ![w] = "done"]
    /\ resp' = [resp EXCEPT ![w] = slot_modal(SlotForm(d, t, e), employees, appointments)]
    /\ UNCHANGED <<employees, reminder, appointments>>

(* ------------------------- Reminder Dispatcher ----------------------- *)
\* The periodic task is not part of src/app.py, which only declares the
\* reminder_sent column; it is modelled from section 4.5 of spec.md. A run
\* is one step: the query, the deliveries and the flag flips together.
LEAD_MINUTES == 60
WINDOW_MINUTES == 1

\* appointments starting in [now + 60min, now + 61min) not yet reminded
reminder_due(rows, now) ==
    {a \in rows : /\ now + LEAD_MINUTES <= a.start_time
                  /\ a.start_time < now + LEAD_MINUTES + WINDOW_MINUTES
                  /\ ~a.reminder_sent}

\* the matches a delivery is attempted for
reminder_attempts(rows, now) == {a \in reminder_due(rows, now) : a.phone # <<>>}

mark_reminder_sent(rows, id) ==
    {IF a.id = id THEN [a EXCEPT !.reminder_sent = TRUE] ELSE a : a \in rows}

RECURSIVE mark_all(_, _)
mark_all(rows, ids) ==
    IF ids = {} THEN rows
    ELSE LET id == CHOOSE i \in ids : TRUE
         IN mark_all(mark_reminder_sent(rows, id), ids \ {id})

reminder_marks_despite_failure(rows, now, failed) ==
    {a.id : a \in reminder_due(rows, now)}

\* ids flipped by a run in which the deliveries to `failed` fail: no phone,
\* or a delivery that succeeded
reminder_marks(rows, now, failed) ==
    {a.id : a \in {d \in reminder_due(rows, now) : d.phone = <<>> \/ d.id \notin failed}}

\* the minutes at which the task wakes: around one hour before the 18:00 slot
\* of the booked Saturday, and one hour before its 18:30 slot
ReminderTimes ==
    LET start == combine(parse_date(Sat06).val, parse_time(T1800).val)
    IN {start - LEAD_MINUTES + d : d \in {-1, 0, 1, 30}}

NoRun == [pc |-> "idle", now |-> 0, failed |-> {}]

ReminderRun(now, failed) ==
    /\ reminder.pc = "idle"
    /\ failed \subseteq {a.id : a \in reminder_attempts(appointments, now)}
    /\ appointments' = mark_all(appointments, reminder_marks(appointments, now, failed))
    /\ reminder' = [pc |-> "done", now |-> now, failed |-> failed]
    /\ UNCHANGED <<employees, pc, form, resp>>

\* the task waits for its next minute
ReminderSleep ==
    /\ reminder.pc = "done"
    /\ reminder' = NoRun
    /\ UNCHANGED <<employees, appointments, pc, form, resp>>

(* ------------------------- end of a request -------------------------- *)
\* the response has been sent and the worker is free for the next request
Return(w) ==
    /\ pc[w] = "done"
    /\ pc' = [pc EXCEPT ![w] = "idle"]
    /\ form' = [form EXCEPT ![w] = NoForm]
    /\ resp' = [resp EXCEPT ![w] = NoResponse]
    /\ UNCHANGED <<employees, reminder, appointments>>

(* ---------------------------- specifications --------------------------- *)
Init ==
    /\ employees = SeedEmployees
    /\ appointments = {}
    /\ pc = [w \in Workers |-> "idle"]
    /\ form = [w \in Workers |-> NoForm]
    /\ resp = [w \in Workers |-> NoResponse]
    /\ reminder = NoRun

\* concurrent workers serving booking and cancellation requests
Next ==
    \E w \in Workers :
        \/ \E f \in BookingForms : CreateValidate(w, f)
        \/ CreateReadCheck(w)
        \/ CreateCommit(w)
        \/ \E id \in 1..MaxId : DeleteGet(w, id)
        \/ DeleteCommit(w)
        \/ Return(w)

Spec == Init /\ [][Next]_vars

\* one worker serving one request at a time, with arbitrary request contents
NextForm ==
    \/ \E f \in AnyForms : CreateValidate(1, f)
    \/ CreateReadCheck(1)
    \/ CreateCommit(1)
    \/ \E id \in 1..MaxId : DeleteGet(1, id)
    \/ DeleteCommit(1)
    \/ \E ws \in WeekStarts, e \in EmpParams, t \in Today : Index(1, ws, e, t)
    \/ \E d \in SlotDates, t \in SlotTimes, e \in SlotEmployees : SlotModal(1, d, t, e)
    \/ Return(1)

SpecForm == Init /\ [][NextForm]_vars

\* bookings with and without a phone number, and the reminder task
ReminderForms ==
    BookingForms \cup
    {f \in AnyForms : /\ f.employee_id = <<"1">>
                      /\ f.date = Sat06
                      /\ f.time \in {T1800, T1830}
                      /\ f.customer_name = <<" ", "A", " ">>
                      /\ f.service = <<"K">>}

NextReminder ==
    \/ \E f \in ReminderForms : CreateValidate(1, f)
    \/ CreateReadCheck(1)
    \/ CreateCommit(1)
    \/ \E id \in 1..MaxId : DeleteGet(1, id)
    \/ DeleteCommit(1)
    \/ Return(1)
    \/ \E now \in ReminderTimes, failed \in SUBSET (1..MaxId) : ReminderRun(now, failed)
    \/ ReminderSleep

SpecReminder == Init /\ [][NextReminder]_vars

(* ------------------------------- claims ------------------------------- *)
\* the pair (employee, start) a create form asks for
SamePair(a, b) == a.employee_id = b.employee_id /\ a.start_time = b.start_time
Holders(rows, row) == {a \in rows : SamePair(a, row)}
IsCreate(w) == form[w].kind = "create"
IsDelete(w) == form[w].kind = "delete"
IsIndex(w) == form[w].kind = "index"
AllBlank(s) == \A i \in 1..Len(s) : s[i] = " "
Spaces(n) == [i \in 1..n |-> " "]
\* t is s without its leading and trailing blanks
IsTrimOf(t, s) ==
    /\ t = <<>> \/ (t[1] # " " /\ t[Len(t)] # " ")
    /\ \E i \in 0..Len(s) : \E j \in 0..Len(s) : s = Spaces(i) \o t \o Spaces(j)

\* C1: in every reachable state no two stored appointments have the same
\* (employee_id, start_time) pair
C1_UniqueEmployeeSlot ==
    \A a \in appointments : \A b \in appointments : SamePair(a, b) => a = b

\* two appointments are stored and a racing INSERT has been turned down
C1_Witness ==
    /\ Cardinality(appointments) >= 2
    /\ \E w \in Workers : pc[w] = "done" /\ IsCreate(w) /\ resp[w] = InternalServerError

\* C2: of the create requests for one (employee, slot) that have passed the
\* read-check, the one that commits while the pair is free succeeds, one that
\* commits when the pair is taken fails with the conflict error, and the store
\* then holds exactly one appointment for the pair
C2_LoserGetsConflictError ==
    [][\A w \in Workers :
          (pc[w] = "create_commit" /\ pc'[w] = "done") =>
             LET mine == Built[form[w]]
             IN /\ Cardinality(Holders(appointments', mine)) = 1
                /\ resp'[w] = IF Holders(appointments, mine) = {}
                              THEN NoContent
                              ELSE Response(400, MsgTaken)]_vars

\* a create form whose date is the closed weekday or whose time is not one of
\* the slot calculator's labels for its date
InvalidSlotForm(f) ==
    /\ f.kind = "create"
    /\ parse_date(f.date).ok
    /\ \/ weekday(parse_date(f.date).val) = 6
       \/ f.time \notin Labels(slots_for(parse_date(f.date).val))

\* C3: a create request for the closed weekday or for a time that is no slot
\* label is answered by the step that receives it, before any store read or
\* write: never with the conflict or the employee-not-found error, never with
\* success, and the store is unchanged
C3_InvalidSlotNeverReachesStore ==
    [][\A w \in Workers :
          InvalidSlotForm(form'[w]) =>
             /\ pc'[w] = "done"
             /\ resp'[w].body \notin {MsgTaken, MsgNoEmployee}
             /\ resp'[w].status # 204
             /\ pc[w] = "idle" => appointments' = appointments]_vars

\* an unknown employee asked for a time that is no label, with a booked store
C3_Witness ==
    \E w \in Workers :
        /\ pc[w] = "done" /\ InvalidSlotForm(form[w])
        /\ form[w].employee_id = <<"9">> /\ form[w].time = T900
        /\ resp[w] = Response(400, MsgInvalidSlot)
        /\ appointments # {}

\* a finished create request for a date on the closed weekday
SundayRequest(w) ==
    /\ pc[w] = "done" /\ IsCreate(w)
    /\ parse_date(form[w].date).ok
    /\ weekday(parse_date(form[w].date).val) = 6

C5_ConflictAndNotFound ==
    [][\A w \in Workers :
          (pc[w] = "create_read" /\ pc'[w] # "create_read") =>
             LET mine == Built[form[w]]
                 known == \E e \in employees : e.id = mine.employee_id
             IN /\ ~known =>
                     /\ pc'[w] = "done"
                     /\ resp'[w] = Response(404, MsgNoEmployee)
                     /\ appointments' = appointments
                /\ (known /\ Holders(appointments, mine) # {}) =>
                     /\ pc'[w] = "done"
                     /\ resp'[w] = Response(400, MsgTaken)
                     /\ appointments' = appointments]_vars

\* one request was answered with the conflict, another with not-found
C5_Witness ==
    \E v \in Workers : \E w \in Workers :
        /\ pc[v] = "done" /\ IsCreate(v) /\ resp[v] = Response(400, MsgTaken)
        /\ pc[w] = "done" /\ IsCreate(w) /\ resp[w] = Response(404, MsgNoEmployee)
        /\ appointments # {}

\* C6: right after a successful create the point lookup of slot_modal for the
\* same employee, date and time returns one record, holding the trimmed
\* customer_name, phone and service and ending SLOT_MINUTES after its start
C6_CreateThenFind ==
    [][\A w \in Workers :
          (pc[w] = "create_commit" /\ pc'[w] = "done" /\ resp'[w].status = 204) =>
             LET f == form[w]
                 found == slot_lookup(appointments', int(f.employee_id).val, f.date, f.time)
             IN /\ Cardinality(found) = 1
                /\ \A r \in found :
                     /\ IsTrimOf(r.customer_name, f.customer_name)
                     /\ IsTrimOf(r.phone, f.phone)
                     /\ IsTrimOf(r.service, f.service)
                     /\ r.start_time = combine(parse_date(f.date).val, parse_time(f.time).val)
                     /\ r.end_time = r.start_time + 60]_vars

\* the late slot was booked with padded fields and is found, ending at 19:30
C6_Witness ==
    \E w \in Workers :
        /\ pc[w] = "done" /\ IsCreate(w) /\ resp[w] = NoContent
        /\ form[w].time = T1830 /\ form[w].customer_name = <<" ", "A", " ">>
        /\ \E r \in slot_lookup(appointments, 1, form[w].date, T1830) :
              r.customer_name = <<"A">> /\ TimeOf(r.end_time) = 19 * 60 + 30

\* C7: the commit of delete_appointment removes the appointment with the
\* given id and nothing else: every other appointment and every employee
\* stays, and the removed record's (employee, start_time) is then free
C7_DeleteRemovesOnlyThat ==
    [][\A w \in Workers :
          (pc[w] = "delete_commit" /\ pc'[w] = "done") =>
             LET id == form[w].appt_id
             IN /\ \A a \in appointments : (a \in appointments') <=> (a.id # id)
                /\ appointments' \subseteq appointments
                /\ employees' = employees
                /\ resp'[w] = NoContent
                /\ \A a \in appointments \ appointments' :
                      filter_by(appointments', a.employee_id, a.start_time) = {}]_vars

\* a delete has succeeded and another appointment is still stored
C7_Witness ==
    \E w \in Workers :
        /\ pc[w] = "done" /\ IsDelete(w) /\ resp[w] = NoContent
        /\ appointments # {}
        /\ \A a \in appointments : a.id # form[w].appt_id

\* C8: delete_appointment on an id that is not in the store answers 404
\* not-found and leaves the store unchanged
C8_DeleteMissingIsNotFound ==
    [][\A w \in Workers :
          (/\ pc[w] = "idle" /\ form'[w].kind = "delete"
           /\ \A a \in appointments : a.id # form'[w].appt_id) =>
             /\ pc'[w] = "done"
             /\ resp'[w] = Response(404, MsgNoAppointment)
             /\ appointments' = appointments]_vars

\* the same id was deleted twice: success, then not-found, other rows stored
C8_Witness ==
    \E v \in Workers : \E w \in Workers :
        /\ pc[v] = "done" /\ IsDelete(v) /\ resp[v] = NoContent
        /\ pc[w] = "done" /\ IsDelete(w) /\ resp[w] = Response(404, MsgNoAppointment)
        /\ form[v].appt_id = form[w].appt_id
        /\ appointments # {}

ExpectedLabels ==
    << <<"0", "9", ":", "0", "0">>, <<"1", "0", ":", "0", "0">>,
       <<"1", "1", ":", "0", "0">>, <<"1", "2", ":", "0", "0">>,
       <<"1", "3", ":", "0", "0">>, <<"1", "4", ":", "0", "0">>,
       <<"1", "5", ":", "0", "0">>, <<"1", "6", ":", "0", "0">>,
       <<"1", "7", ":", "0", "0">>, <<"1", "8", ":", "0", "0">>,
       <<"1", "8", ":", "3", "0">> >>

\* C9: for every date of a week view the slot list is exactly 09:00, 10:00,
\* ..., 18:00, 18:30 in strictly increasing time order if the date is not a
\* Sunday, and empty if it is
C9_SlotLabels ==
    \A w \in Workers :
        (pc[w] = "done" /\ IsIndex(w) /\ resp[w].status = 200) =>
            \A d \in DOMAIN resp[w].ctx.day_slots :
                LET slots == resp[w].ctx.day_slots[d]
                IN IF d % 7 = 0
                   THEN slots = <<>>
                   ELSE /\ [i \in 1..Len(slots) |-> slots[i].label] = ExpectedLabels
                        /\ \A i \in 1..Len(slots) : DateOf(slots[i].dt) = d
                        /\ \A i \in 1..(Len(slots) - 1) : slots[i].dt < slots[i + 1].dt

\* a week view from Wednesday 2024-01-03 on: six open days and a Sunday
C9_Witness ==
    \E w \in Workers :
        /\ pc[w] = "done" /\ IsIndex(w) /\ resp[w].status = 200
        /\ form[w].week_start = Wed03
        /\ \E d \in DOMAIN resp[w].ctx.day_slots : resp[w].ctx.day_slots[d] = <<>>
        /\ \E d \in DOMAIN resp[w].ctx.day_slots : Len(resp[w].ctx.day_slots[d]) = 11

\* the Monday on or before d
MondayOnOrBefore(d) == CHOOSE m \in (d - 6)..d : m % 7 = 1

\* C10: the week built for a reference date, the week_start parameter if
\* given and today's date otherwise, is the 7 consecutive dates from the
\* Monday on or before it
C10_WeekStartsOnMonday ==
    \A w \in Workers :
        (pc[w] = "done" /\ IsIndex(w) /\ resp[w].status = 200) =>
            LET ref == IF form[w].week_start # <<>>
                       THEN parse_date(form[w].week_start).val
                       ELSE resp[w].ctx.today
            IN resp[w].ctx.days = [i \in 1..7 |-> MondayOnOrBefore(ref) + (i - 1)]

\* C11: GET /slot leaves the store as it is and answers 400 when date, time
\* or employee_id is left out, 404 when all three are given and the employee
\* id is unknown, and otherwise the detail view of the appointment stored for
\* (employee, start), or the creation form when there is none
C11_SlotModalAnswers ==
    [][\A w \in Workers :
          (pc[w] = "idle" /\ form'[w].kind = "slot") =>
             LET f == form'[w]
                 missing == f.date = <<>> \/ f.time = <<>> \/ f.employee_id = <<>>
                 known == \E e \in employees : int(f.employee_id).ok /\ e.id = int(f.employee_id).val
             IN /\ appointments' = appointments
                /\ missing => resp'[w].status = 400
                /\ (~missing /\ ~known) => resp'[w].status = 404
                /\ (~missing /\ known) =>
                      /\ resp'[w].status = 200
                      /\ resp'[w].ctx.appt =
                            slot_lookup(appointments, int(f.employee_id).val, f.date, f.time)]_vars

\* C12: a run of the Reminder Dispatcher at time T leaves every appointment
\* that starts in [T + 60min, T + 61min) and was not yet reminded with
\* reminder_sent true when it has no phone number or its delivery succeeded,
\* and false when its delivery failed; no step turns reminder_sent of a
\* stored appointment from true back to false
C12_ReminderRunMarks ==
    [][/\ (reminder.pc = "idle" /\ reminder'.pc = "done") =>
             \A a \in appointments :
                (/\ reminder'.now + 60 <= a.start_time
                 /\ a.start_time < reminder'.now + 61
                 /\ ~a.reminder_sent) =>
                   \E b \in appointments' :
                      /\ b.id = a.id
                      /\ b = [a EXCEPT !.reminder_sent = b.reminder_sent]
                      /\ b.reminder_sent = (a.phone = <<>> \/ a.id \notin reminder'.failed)
       /\ \A a \in appointments, b \in appointments' :
             (a.id = b.id /\ a.reminder_sent) => b.reminder_sent]_vars

\* a run has just marked an appointment without a phone number and one whose
\* delivery succeeded, while one whose delivery failed stays unmarked
C12_Witness ==
    /\ reminder.pc = "done"
    /\ \E a \in appointments : a.id \in reminder.failed /\ ~a.reminder_sent
    /\ \E a \in appointments :
          a.phone # <<>> /\ a.reminder_sent /\ a.start_time = reminder.now + 60
C12_WitnessNoPhone ==
    /\ reminder.pc = "done"
    /\ \E a \in appointments :
          a.phone = <<>> /\ a.reminder_sent /\ a.start_time = reminder.now + 60

\* C13: no employee is double-booked: the intervals [start_time, end_time)
\* of any two distinct stored appointments of one employee are disjoint, the
\* late slot next to the regular 18:00 slot included
C13_NoOverlapPerEmployee ==
    \A a \in appointments, b \in appointments :
        (a # b /\ a.employee_id = b.employee_id) =>
            (a.end_time <= b.start_time \/ b.end_time <= a.start_time)

\* C14: every stored appointment is on a bookable slot: not on the closed
\* weekday, starting at a label iter_slots_for_day gives for its date, ending
\* 60 minutes after its start, with a customer name and a service, and
\* booked for an existing employee
C14_StoredOnBookableSlot ==
    \A a \in appointments :
        /\ weekday(DateOf(a.start_time)) # 6
        /\ strftime_HM(a.start_time) \in Labels(iter_slots_for_day(DateOf(a.start_time)))
        /\ a.end_time = a.start_time + 60
        /\ a.customer_name # <<>>
        /\ a.service # <<>>
        /\ \E e \in employees : e.id = a.employee_id

\* both late-afternoon slots are stored, and requests for a closed day, an
\* unknown employee and a blank service have been turned down on the way
C14_Witness ==
    /\ Cardinality(appointments) = 2
    /\ \E a \in appointments : TimeOf(a.start_time) = 18 * 60 + 30
    /\ pc[1] = "done" /\ IsCreate(1) /\ resp[1].status \in {400, 404}
    /\ \/ form[1].date = Sun07
       \/ form[1].employee_id = <<"9">>
       \/ AllBlank(form[1].service)

====
